---------------------------- MODULE Spec2Model ----------------------------
(***************************************************************************)
(* Model of autoextract/aio/errors.py: the DomainOccupied parser, the      *)
(* _QueryError retry classification and the RequestError constructor.      *)
(*                                                                         *)
(* A Python str is a sequence of one-character strings, so that the        *)
(* regular expression, str.lower, str.strip and float() are computed       *)
(* character by character.  A Python float is a record: a finite decimal   *)
(* m * 10^e with a sign, an infinity, or nan (binary rounding and overflow *)
(* of doubles are not modelled; the numerals of the model are short).      *)
(***************************************************************************)
EXTENDS Integers, Sequences, FiniteSets, TLC

VARIABLES
    message,      \* the message string handed to the operation
    directive,    \* result of DomainOccupied.from_message, or Unset
    err,          \* the _QueryError object, or NoObject
    result,       \* outcome of the last call on the _QueryError
    req,          \* the RequestError object, or NoObject
    reqCall,      \* the arguments of the constructor call that made req
    reqResult     \* outcome of the last call on the RequestError

vars == <<message, directive, err, result, req, reqCall, reqResult>>

-----------------------------------------------------------------------------
(* Characters and str primitives *)

LowerLetters == <<"a", "b", "c", "d", "e", "f", "g", "h", "i", "j", "k", "l", "m",
                  "n", "o", "p", "q", "r", "s", "t", "u", "v", "w", "x", "y", "z">>
UpperLetters == <<"A", "B", "C", "D", "E", "F", "G", "H", "I", "J", "K", "L", "M",
                  "N", "O", "P", "Q", "R", "S", "T", "U", "V", "W", "X", "Y", "Z">>
Digits == <<"0", "1", "2", "3", "4", "5", "6", "7", "8", "9">>

Range(s) == {s[i] : i \in DOMAIN s}

UpperToLower ==
    [c \in Range(UpperLetters) |->
        LowerLetters[CHOOSE i \in DOMAIN UpperLetters : UpperLetters[i] = c]]

\* the characters str.strip() and float() skip at both ends
Whitespace == {" ", "\t", "\n", "\r", "\f"}

\* one character of str.lower()
LowerChar(c) == IF c \in DOMAIN UpperToLower THEN UpperToLower[c] ELSE c

\* str.lower()
Lower(s) == [i \in 1..Len(s) |-> LowerChar(s[i])]

\* str.strip(): drop the whitespace run at each end
Strip(s) ==
    LET keep == {i \in 1..Len(s) : s[i] \notin Whitespace}
    IN  IF keep = {} THEN <<>>
        ELSE SubSeq(s, CHOOSE i \in keep : \A j \in keep : i <= j,
                       CHOOSE i \in keep : \A j \in keep : i >= j)

DigitValue(c) == (CHOOSE i \in DOMAIN Digits : Digits[i] = c) - 1

IsDigit(c) == c \in Range(Digits)

-----------------------------------------------------------------------------
(* float(str) *)

ValueError == [k |-> "ValueError"]
NaN == [k |-> "nan"]
Inf(neg) == [k |-> "inf", neg |-> neg]

RECURSIVE Normalize(_, _)
\* the decimal m * 10^e with no trailing zero left in m
Normalize(m, e) ==
    IF m = 0 THEN [m |-> 0, e |-> 0]
    ELSE IF m % 10 = 0 THEN Normalize(m \div 10, e + 1)
    ELSE [m |-> m, e |-> e]

Fin(neg, m, e) ==
    LET n == Normalize(m, e) IN [k |-> "fin", neg |-> neg, m |-> n.m, e |-> n.e]

\* a run of digits in which single underscores may separate digits
IsDigitRun(s) ==
    /\ Len(s) > 0
    /\ IsDigit(s[1])
    /\ IsDigit(s[Len(s)])
    /\ \A i \in 1..Len(s) : IsDigit(s[i]) \/ s[i] = "_"
    /\ \A i \in 1..(Len(s) - 1) : ~(s[i] = "_" /\ s[i + 1] = "_")

RECURSIVE DigitsValue(_)
DigitsValue(s) ==
    IF s = <<>> THEN 0
    ELSE IF s[Len(s)] = "_" THEN DigitsValue(SubSeq(s, 1, Len(s) - 1))
    ELSE 10 * DigitsValue(SubSeq(s, 1, Len(s) - 1)) + DigitValue(s[Len(s)])

CountDigits(s) == Cardinality({i \in 1..Len(s) : IsDigit(s[i])})

FirstIndex(s, chars) ==
    LET hits == {i \in 1..Len(s) : s[i] \in chars}
    IN  IF hits = {} THEN 0 ELSE CHOOSE i \in hits : \A j \in hits : i <= j

\* float(str): whitespace is stripped, then [sign] (inf | infinity | nan |
\* digits [. digits] [e [sign] digits]); anything else raises ValueError
ParseFloat(s) ==
    LET t     == Strip(s)
        signd == Len(t) > 0 /\ t[1] \in {"+", "-"}
        neg   == signd /\ t[1] = "-"
        body  == IF signd THEN SubSeq(t, 2, Len(t)) ELSE t
        low   == Lower(body)
        ePos  == FirstIndex(low, {"e"})
        mant  == IF ePos = 0 THEN low ELSE SubSeq(low, 1, ePos - 1)
        expo  == IF ePos = 0 THEN <<>> ELSE SubSeq(low, ePos + 1, Len(low))
        eSgnd == Len(expo) > 0 /\ expo[1] \in {"+", "-"}
        eNeg  == eSgnd /\ expo[1] = "-"
        eDig  == IF eSgnd THEN SubSeq(expo, 2, Len(expo)) ELSE expo
        dot   == FirstIndex(mant, {"."})
        ipart == IF dot = 0 THEN mant ELSE SubSeq(mant, 1, dot - 1)
        fpart == IF dot = 0 THEN <<>> ELSE SubSeq(mant, dot + 1, Len(mant))
        mantOk == /\ ipart # <<>> \/ fpart # <<>>
                  /\ ipart = <<>> \/ IsDigitRun(ipart)
                  /\ fpart = <<>> \/ IsDigitRun(fpart)
        expOk == ePos = 0 \/ IsDigitRun(eDig)
        eVal  == IF ePos = 0 THEN 0
                 ELSE IF eNeg THEN 0 - DigitsValue(eDig) ELSE DigitsValue(eDig)
    IN  IF low \in {<<"i", "n", "f">>, <<"i", "n", "f", "i", "n", "i", "t", "y">>}
            THEN Inf(neg)
        ELSE IF low = <<"n", "a", "n">> THEN NaN
        ELSE IF mantOk /\ expOk
            THEN Fin(neg, DigitsValue(ipart \o fpart), eVal - CountDigits(fpart))
        ELSE ValueError

\* x >= 0 on floats (false for nan, true for -0.0)
FloatGE0(x) ==
    CASE x.k = "nan" -> FALSE
      [] x.k = "inf" -> ~x.neg
      [] x.k = "fin" -> ~x.neg \/ x.m = 0

-----------------------------------------------------------------------------
(* class DomainOccupied *)

\* the three literal stretches of DOMAIN_OCCUPIED_REGEX
\* "domain "
LitDomain == <<"d", "o", "m", "a", "i", "n", " ">>
\* " is occupied, please retry in "
LitOccupied == <<" ", "i", "s", " ", "o", "c", "c", "u", "p", "i", "e", "d", ",",
                 " ", "p", "l", "e", "a", "s", "e", " ", "r", "e", "t", "r", "y",
                 " ", "i", "n", " ">>
\* " seconds"
LitSeconds == <<" ", "s", "e", "c", "o", "n", "d", "s">>

\* re.IGNORECASE: the literal lit (lower case) matches s at position p
LiteralAt(lit, s, p) ==
    /\ p >= 1
    /\ p + Len(lit) - 1 <= Len(s)
    /\ \A i \in 1..Len(lit) : LowerChar(s[p + i - 1]) = lit[i]

\* how far "." can run from the start: it matches any character but "\n"
DotRun(s) ==
    LET nl == FirstIndex(s, {"\n"}) IN IF nl = 0 THEN Len(s) ELSE nl - 1

NoMatch == [matched |-> FALSE]

MaxOf(S) == CHOOSE x \in S : \A y \in S : x >= y

\* DOMAIN_OCCUPIED_REGEX.match(message):
\*   .*domain (.+) is occupied, please retry in (.+) seconds.*
\* match() anchors at the start; every quantifier is greedy, so the engine
\* takes the longest leading ".*", then the longest group 1, then the longest
\* group 2 for which the rest still matches; both groups hold at least one
\* character and none of ".*", ".+" crosses a newline.
DOMAIN_OCCUPIED_REGEX(s) ==
    LET n    == DotRun(s)
        line == SubSeq(s, 1, n)
        dPos == {p \in 1..n : LiteralAt(LitDomain, line, p)}
        oPos == {q \in 1..n : LiteralAt(LitOccupied, line, q)}
        sPos == {r \in 1..n : LiteralAt(LitSeconds, line, r)}
        okS(q) == {r \in sPos : r >= q + Len(LitOccupied) + 1}
        okO(p) == {q \in oPos : q >= p + Len(LitDomain) + 1 /\ okS(q) # {}}
        okD    == {p \in dPos : okO(p) # {}}
    IN  IF okD = {} THEN NoMatch
        ELSE LET p == MaxOf(okD)
                 q == MaxOf(okO(p))
                 r == MaxOf(okS(q))
             IN  [matched |-> TRUE,
                  group1 |-> SubSeq(line, p + Len(LitDomain), q - 1),
                  group2 |-> SubSeq(line, q + Len(LitOccupied), r - 1)]

DEFAULT_RETRY_SECONDS == Fin(FALSE, 5 * 60, 0)

None == [k |-> "None"]

\* DomainOccupied.__init__
DomainOccupied(domain, retry_seconds) ==
    [k |-> "DomainOccupied", domain |-> domain, retry_seconds |-> retry_seconds]

\* the fallback of the except branch set to no delay
RetrySecondsOf_ZeroFallback(group2) ==
    LET f == ParseFloat(group2)
    IN  IF f = ValueError THEN Fin(FALSE, 0, 0) ELSE f

\* float(match.group(2)) with the except ValueError branch
RetrySecondsOf(group2) ==
    LET f == ParseFloat(group2)
    IN  IF f = ValueError THEN DEFAULT_RETRY_SECONDS ELSE f

\* DomainOccupied.from_message
from_message(msg) ==
    LET match == DOMAIN_OCCUPIED_REGEX(msg)
    IN  IF ~match.matched THEN None
        ELSE DomainOccupied(match.group1, RetrySecondsOf(match.group2))

-----------------------------------------------------------------------------
(* The messages the parser is run on *)

MaxParts == 5
MaxSeconds == 2

RECURSIVE Flatten(_)
\* the concatenation of a sequence of strings
Flatten(parts) ==
    IF parts = <<>> THEN <<>> ELSE Head(parts) \o Flatten(Tail(parts))

\* str.upper() on the letters of the model, to spell a literal in capitals
UpperChar(c) ==
    IF c \in Range(LowerLetters)
        THEN UpperLetters[CHOOSE i \in DOMAIN LowerLetters : LowerLetters[i] = c]
        ELSE c

Upper(s) == [i \in 1..Len(s) |-> UpperChar(s[i])]

\* first letter in capitals, as in "Domain example.com is occupied"
Capitalize(s) ==
    LET i == FirstIndex(s, Range(LowerLetters))
    IN  IF i = 0 THEN s ELSE [j \in 1..Len(s) |-> IF j = i THEN UpperChar(s[j]) ELSE s[j]]

Casings == {"lower", "Capital", "UPPER"}

Cased(s, casing) ==
    CASE casing = "lower" -> s
      [] casing = "Capital" -> Capitalize(s)
      [] casing = "UPPER" -> Upper(s)

\* every string made of at most MaxParts of the three literals and a digit
FreePieces == {LitDomain, LitOccupied, LitSeconds, <<"5">>}

FreeMessages ==
    {Flatten(p) : p \in UNION {[1..n -> FreePieces] : n \in 0..MaxParts}}

\* decimal text of a small natural number
IntText(n) == IF n < 10 THEN <<Digits[n + 1]>>
              ELSE <<Digits[(n \div 10) + 1], Digits[(n % 10) + 1]>>

SecondsTexts ==
    {IntText(n) : n \in 0..MaxSeconds}
        \cup {<<"-">> \o IntText(n) : n \in 0..MaxSeconds}
        \cup {<<"4", ".", "5">>, <<" ", "7", "\t">>, <<"1", "e", "1">>, <<"1", "_", "0">>,
              <<"n", "a", "n">>, <<"-", "I", "n", "f">>, <<"s", "o", "o", "n">>,
              <<"5", "\n", "6">>, <<>>}

NameTexts ==
    {<<"a">>, <<"e", "x", ".", "c", "o", "m">>, <<" ", "a", " ">>, <<>>,
     <<"a">> \o LitOccupied \o <<"b">>}

PrefixTexts == {<<>>, <<"E", "r", "r", ":", " ">>, <<"\n">>, <<"x", "\n", "y">>, LitDomain}

SuffixTexts == {<<>>, <<".">>, <<"\n", "x">>, LitSeconds, <<" ", "o", "r", " ", "9">> \o LitSeconds}

\* which literal of the template is left out, if any
Breaks == {"none", "domain", "occupied", "seconds"}

TemplateMessage(pre, name, secs, post, casing, break) ==
    pre \o (IF break = "domain" THEN <<>> ELSE Cased(LitDomain, casing))
        \o name
        \o (IF break = "occupied" THEN <<>> ELSE Cased(LitOccupied, casing))
        \o secs
        \o (IF break = "seconds" THEN <<>> ELSE Cased(LitSeconds, casing))
        \o post

TemplateMessages ==
    {TemplateMessage(pre, name, secs, post, casing, break) :
        pre \in PrefixTexts, name \in NameTexts, secs \in SecondsTexts,
        post \in SuffixTexts, casing \in Casings, break \in Breaks}

ParseMessages == FreeMessages \cup TemplateMessages

-----------------------------------------------------------------------------
(* State *)

Unset == [k |-> "Unset"]
NoObject == [k |-> "NoObject"]
NoResult == [op |-> "none"]

Idle ==
    /\ directive = Unset
    /\ err = NoObject
    /\ result = NoResult
    /\ req = NoObject
    /\ reqCall = NoResult
    /\ reqResult = NoResult

-----------------------------------------------------------------------------
(* DomainOccupied.from_message run on a message *)

InitParse ==
    /\ message \in ParseMessages
    /\ Idle

FromMessage ==
    /\ directive = Unset
    /\ directive' = from_message(message)
    /\ UNCHANGED <<message, err, result, req, reqCall, reqResult>>

NextParse == FromMessage

SpecParse == InitParse /\ [][NextParse]_vars

-----------------------------------------------------------------------------
(* Claims about DomainOccupied.from_message *)

Parsed == directive # Unset

\* the positions of message at which lit occurs, in any casing
Occurrences(lit) == {p \in 1..Len(message) : LiteralAt(lit, message, p)}

\* message holds "domain <name> is occupied, please retry in <seconds> seconds"
\* somewhere, <name> and <seconds> being non-empty text of one line
ContainsTemplate ==
    \E p \in Occurrences(LitDomain), q \in Occurrences(LitOccupied),
       r \in Occurrences(LitSeconds) :
        /\ q >= p + Len(LitDomain) + 1
        /\ r >= q + Len(LitOccupied) + 1
        /\ \A i \in (p + Len(LitDomain))..(r - 1) : message[i] # "\n"

\* C3: from_message returns a directive for every message that contains the
\* domain-occupied template, whatever text precedes and follows it, and None
\* for every message that does not contain it.
C3_DirectiveIffTemplateAnywhere ==
    Parsed => ((directive # None) <=> ContainsTemplate)

MinOf(S) == CHOOSE x \in S : \A y \in S : x <= y

\* the captures read non-greedily from the occurrence of "domain " at p: the
\* name runs to the next " is occupied, please retry in ", the seconds from
\* there to the next " seconds"
LazyCaptures(p) ==
    LET qs == {q \in Occurrences(LitOccupied) : q >= p + Len(LitDomain) + 1}
        q  == MinOf(qs)
        rs == {r \in Occurrences(LitSeconds) : r >= q + Len(LitOccupied) + 1}
        r  == MinOf(rs)
    IN  IF qs = {} \/ rs = {} THEN NoMatch
        ELSE [matched |-> TRUE,
              group1 |-> SubSeq(message, p + Len(LitDomain), q - 1),
              group2 |-> SubSeq(message, q + Len(LitOccupied), r - 1)]

\* C4: when the message matches, resource_name is the text from after
\* "domain " up to the next " is occupied, please retry in " and the seconds
\* capture the text from there up to the next " seconds" (non-greedy), and a
\* numeric seconds capture is the directive's retry_after_seconds; also when
\* a literal of the template occurs more than once.
C4_CapturesAreNonGreedy ==
    (Parsed /\ directive # None) =>
        \E p \in Occurrences(LitDomain) :
            LET c == LazyCaptures(p)
            IN  /\ c.matched
                /\ directive.domain = c.group1
                /\ ParseFloat(c.group2) # ValueError
                       => directive.retry_seconds = ParseFloat(c.group2)

\* C5: every directive from_message produces has retry_after_seconds >= 0.
C5_RetrySecondsNonNegative ==
    (Parsed /\ directive # None) => FloatGE0(directive.retry_seconds)

-----------------------------------------------------------------------------
(* class _QueryError *)

\* the list RETRIABLE_MESSAGES is built from
RetriableList == <<
    \* "query timed out"
    <<"q", "u", "e", "r", "y", " ", "t", "i", "m", "e", "d", " ", "o", "u", "t">>,
    \* "Downloader error: No response (network5)"
    <<"D", "o", "w", "n", "l", "o", "a", "d", "e", "r", " ", "e", "r", "r", "o", "r",
      ":", " ", "N", "o", " ", "r", "e", "s", "p", "o", "n", "s", "e", " ", "(", "n",
      "e", "t", "w", "o", "r", "k", "5", ")">>,
    \* "Downloader error: http50"
    <<"D", "o", "w", "n", "l", "o", "a", "d", "e", "r", " ", "e", "r", "r", "o", "r",
      ":", " ", "h", "t", "t", "p", "5", "0">>,
    \* "Downloader error: GlobalTimeoutError"
    <<"D", "o", "w", "n", "l", "o", "a", "d", "e", "r", " ", "e", "r", "r", "o", "r",
      ":", " ", "G", "l", "o", "b", "a", "l", "T", "i", "m", "e", "o", "u", "t", "E",
      "r", "r", "o", "r">>,
    \* "Proxy error: banned"
    <<"P", "r", "o", "x", "y", " ", "e", "r", "r", "o", "r", ":", " ", "b", "a", "n",
      "n", "e", "d">>,
    \* "Proxy error: internal_error"
    <<"P", "r", "o", "x", "y", " ", "e", "r", "r", "o", "r", ":", " ", "i", "n", "t",
      "e", "r", "n", "a", "l", "_", "e", "r", "r", "o", "r">>,
    \* "Proxy error: nxdomain"
    <<"P", "r", "o", "x", "y", " ", "e", "r", "r", "o", "r", ":", " ", "n", "x", "d",
      "o", "m", "a", "i", "n">>,
    \* "Proxy error: timeout"
    <<"P", "r", "o", "x", "y", " ", "e", "r", "r", "o", "r", ":", " ", "t", "i", "m",
      "e", "o", "u", "t">>,
    \* "Proxy error: ssl_tunnel_error"
    <<"P", "r", "o", "x", "y", " ", "e", "r", "r", "o", "r", ":", " ", "s", "s", "l",
      "_", "t", "u", "n", "n", "e", "l", "_", "e", "r", "r", "o", "r">>,
    \* "Proxy error: msgtimeout"
    <<"P", "r", "o", "x", "y", " ", "e", "r", "r", "o", "r", ":", " ", "m", "s", "g",
      "t", "i", "m", "e", "o", "u", "t">>,
    \* "Proxy error: econnrefused"
    <<"P", "r", "o", "x", "y", " ", "e", "r", "r", "o", "r", ":", " ", "e", "c", "o",
      "n", "n", "r", "e", "f", "u", "s", "e", "d">> >>

\* {message.lower().strip() for message in [...]}
RETRIABLE_MESSAGES == {Strip(Lower(RetriableList[i])) : i \in DOMAIN RetriableList}

\* _QueryError.__init__(query, message, max_retries=0); kw holds max_retries
\* when the caller passes it
QueryErrorInit(query, msg, kw) ==
    [k |-> "QueryError",
     query |-> query,
     message |-> msg,
     max_retries |-> IF "max_retries" \in DOMAIN kw THEN kw.max_retries ELSE 0,
     domain_occupied |-> from_message(msg)]

KeyError(key) == [k |-> "KeyError", key |-> key]

\* max_retries not handed on to the constructor
from_query_result_DropsMaxRetries(query_result, kw) ==
    IF "query" \notin DOMAIN query_result THEN KeyError("query")
    ELSE IF "error" \notin DOMAIN query_result THEN KeyError("error")
    ELSE QueryErrorInit(query_result.query, query_result.error, <<>>)

\* query_result.get("error", "") in place of the subscript
from_query_result_DefaultsError(query_result, kw) ==
    IF "query" \notin DOMAIN query_result THEN KeyError("query")
    ELSE QueryErrorInit(query_result.query,
                        IF "error" \in DOMAIN query_result
                            THEN query_result.error ELSE <<>>,
                        kw)

\* _QueryError.from_query_result(query_result, max_retries=0): the new object,
\* or the KeyError of the first subscript that fails
from_query_result(query_result, kw) ==
    IF "query" \notin DOMAIN query_result THEN KeyError("query")
    ELSE IF "error" \notin DOMAIN query_result THEN KeyError("error")
    ELSE QueryErrorInit(query_result.query, query_result.error, kw)

\* the message compared without strip()
retriable_NoStrip(self) ==
    IF self.domain_occupied # None THEN TRUE
    ELSE Lower(self.message) \in RETRIABLE_MESSAGES

\* _QueryError.retriable
retriable(self) ==
    IF self.domain_occupied # None THEN TRUE
    ELSE Strip(Lower(self.message)) \in RETRIABLE_MESSAGES

ZeroSeconds == Fin(FALSE, 0, 0)

\* the default delay returned when there is no directive
retry_seconds_DefaultWhenAbsent(self) ==
    IF self.domain_occupied # None THEN self.domain_occupied.retry_seconds
    ELSE DEFAULT_RETRY_SECONDS

\* _QueryError.retry_seconds
retry_seconds(self) ==
    IF self.domain_occupied # None THEN self.domain_occupied.retry_seconds
    ELSE ZeroSeconds

-----------------------------------------------------------------------------
(* The messages, queries and retry budgets _QueryError is built from *)

MaxPad == 1
MaxRetries == 1

\* whitespace runs: at most MaxPad blanks, or a newline and a tab
Pads == {[i \in 1..n |-> " "] : n \in 0..MaxPad} \cup {<<"\n", "\t">>}

SourceCasings == {"source", "lower", "UPPER"}

Respelled(s, casing) ==
    CASE casing = "source" -> s
      [] casing = "lower" -> Lower(s)
      [] casing = "UPPER" -> Upper(s)

\* every reason of the list, in three casings, between whitespace runs
PaddedReasons ==
    {lead \o Respelled(RetriableList[i], casing) \o trail :
        i \in DOMAIN RetriableList, casing \in SourceCasings,
        lead \in Pads, trail \in Pads}

\* a doubled first blank, inside the reason
DoubleBlank(s) ==
    LET b == FirstIndex(s, {" "}) IN SubSeq(s, 1, b) \o SubSeq(s, b, Len(s))

\* strings one edit away from a reason
NearReasons ==
    UNION {{RetriableList[i] \o <<".">>,
            <<"x">> \o RetriableList[i],
            SubSeq(RetriableList[i], 1, Len(RetriableList[i]) - 1),
            DoubleBlank(RetriableList[i])} : i \in DOMAIN RetriableList}

\* domain-occupied messages and their broken variants
OccupiedMessages ==
    {TemplateMessage(pre, name, secs, post, casing, break) :
        pre \in {<<>>, <<"\n">>, <<"E", "r", "r", ":", " ">>},
        name \in {<<"e", "x", ".", "c", "o", "m">>, <<" ", "a", " ">>},
        secs \in SecondsTexts, post \in {<<".">>, LitSeconds},
        casing \in {"Capital", "UPPER"}, break \in {"none", "seconds"}}

\* "Some unrelated upstream glitch"
UnrelatedMessage ==
    <<"S", "o", "m", "e", " ", "u", "n", "r", "e", "l", "a", "t", "e", "d", " ", "u",
      "p", "s", "t", "r", "e", "a", "m", " ", "g", "l", "i", "t", "c", "h">>

QueryMessages ==
    PaddedReasons \cup NearReasons \cup OccupiedMessages
        \cup {UnrelatedMessage, <<>>, <<" ">>}

\* the messages assigned to the attribute of an existing object
AssignedMessages ==
    {UnrelatedMessage,
     RetriableList[1],
     TemplateMessage(<<>>, <<"a">>, <<"1">>, <<>>, "lower", "none")}

Queries == {"query-1", "query-2"}

\* the keyword arguments of a call: max_retries passed, or left out
RetryKwargs == {<<>>} \cup {[max_retries |-> n] : n \in 0..MaxRetries}

\* result entries: the two keys, one or both missing, or an extra key
Entry(q, msg, keys) ==
    [key \in keys |-> CASE key = "query" -> q
                        [] key = "error" -> msg
                        [] OTHER -> "x"]

EntryKeySets ==
    {{"query", "error"}, {"query", "error", "url"}, {"query"}, {"error"}, {}}

-----------------------------------------------------------------------------
(* _QueryError objects: construction, reads, attribute assignment *)

InitQuery ==
    /\ message \in QueryMessages
    /\ Idle

\* no call has been made yet: a behaviour follows one object from the call
\* that constructs it
Fresh == err = NoObject /\ result = NoResult

\* _QueryError(query, message, max_retries)
Construct ==
    \E q \in Queries, kw \in RetryKwargs :
        /\ Fresh
        /\ err' = QueryErrorInit(q, message, kw)
        /\ result' = [op |-> "__init__", query |-> q, kw |-> kw, raised |-> None]
        /\ UNCHANGED <<message, directive, req, reqCall, reqResult>>

\* _QueryError.from_query_result(entry, max_retries): err is the object the
\* call returns, and NoObject when it raises
FromQueryResult ==
    \E q \in Queries, keys \in EntryKeySets, kw \in RetryKwargs :
        LET entry == Entry(q, message, keys)
            out   == from_query_result(entry, kw)
        IN  /\ Fresh
            /\ err' = IF out.k = "KeyError" THEN NoObject ELSE out
            /\ result' = [op |-> "from_query_result", entry |-> entry, kw |-> kw,
                          raised |-> IF out.k = "KeyError" THEN out ELSE None]
            /\ UNCHANGED <<message, directive, req, reqCall, reqResult>>

ReadRetriable ==
    /\ err # NoObject
    /\ result' = [op |-> "retriable", value |-> retriable(err)]
    /\ UNCHANGED <<message, directive, err, req, reqCall, reqResult>>

ReadRetrySeconds ==
    /\ err # NoObject
    /\ result' = [op |-> "retry_seconds", value |-> retry_seconds(err)]
    /\ UNCHANGED <<message, directive, err, req, reqCall, reqResult>>

\* err.message = m: the class defines no __setattr__ and no __slots__, so the
\* assignment is permitted and touches the one attribute
SetMessage ==
    \E m \in AssignedMessages :
        /\ err # NoObject
        /\ err' = [err EXCEPT !.message = m]
        /\ result' = [op |-> "__setattr__", name |-> "message"]
        /\ UNCHANGED <<message, directive, req, reqCall, reqResult>>

NextQuery ==
    \/ Construct
    \/ FromQueryResult
    \/ ReadRetriable
    \/ ReadRetrySeconds
    \/ SetMessage

SpecQuery == InitQuery /\ [][NextQuery]_vars

-----------------------------------------------------------------------------
(* Claims about _QueryError *)

\* s is the reason lit, in some casing, between two runs of whitespace
IsPaddedCasing(s, lit) ==
    \E a \in 0..Len(s) :
        /\ a + Len(lit) <= Len(s)
        /\ \A i \in 1..a : s[i] \in Whitespace
        /\ \A i \in 1..Len(lit) : LowerChar(s[a + i]) = LowerChar(lit[i])
        /\ \A i \in (a + Len(lit) + 1)..Len(s) : s[i] \in Whitespace

NormalizesToReason(s) ==
    \E i \in DOMAIN RetriableList : IsPaddedCasing(s, RetriableList[i])

\* C1: retriable of _QueryError(message) is true exactly when a directive was
\* derived from the message or the message is, up to casing and surrounding
\* whitespace, one of the 11 retriable reasons.
C1_RetriableIffDirectiveOrReason ==
    /\ Cardinality(RETRIABLE_MESSAGES) = 11
    /\ (result.op = "retriable" /\ err.message = message) =>
           (result.value <=>
               (from_message(message) # None \/ NormalizesToReason(message)))

C1_Witness ==
    /\ result.op = "retriable"
    /\ result.value
    /\ err.message = message
    /\ err.domain_occupied = None
    /\ Lower(message) # message
    /\ Strip(message) # message

\* "Downloader error: http50"
Http50 == RetriableList[3]

\* C2: retry_seconds is the derived directive's retry_seconds when there is a
\* directive and 0.0 when there is none; "Downloader error: http50" is
\* retriable with retry_seconds 0.0.
C2_RetrySecondsOfDirectiveOrZero ==
    /\ result.op = "retry_seconds" =>
           /\ err.domain_occupied = from_message(message)
           /\ result.value = IF from_message(message) # None
                                 THEN from_message(message).retry_seconds
                                 ELSE Fin(FALSE, 0, 0)
    /\ (err # NoObject /\ err.message = Http50 /\ message = Http50) =>
           /\ result.op = "retriable" => result.value
           /\ result.op = "retry_seconds" => result.value = Fin(FALSE, 0, 0)

C2_Witness ==
    /\ result.op = "retry_seconds"
    /\ message = Http50
    /\ err.message = Http50
    /\ result.value = Fin(FALSE, 0, 0)

\* C6: a message that matches the template with a seconds capture float()
\* rejects still gives a directive, with the captured name and 300.0 seconds,
\* and the _QueryError built from it exists.
C6_UnparsableSecondsFallBack ==
    LET match == DOMAIN_OCCUPIED_REGEX(message)
        unparsable == match.matched /\ ParseFloat(match.group2) = ValueError
    IN  /\ (unparsable /\ result.op = "__init__") =>
               (result.raised = None /\ err # NoObject)
        /\ (unparsable /\ err # NoObject) =>
               err.domain_occupied =
                   [k |-> "DomainOccupied", domain |-> match.group1,
                    retry_seconds |-> Fin(FALSE, 300, 0)]

C6_Witness ==
    /\ result.op = "__init__"
    /\ err # NoObject
    /\ DOMAIN_OCCUPIED_REGEX(message).matched
    /\ ParseFloat(DOMAIN_OCCUPIED_REGEX(message).group2) = ValueError
    /\ err.domain_occupied # None

\* C7: from_query_result({query: Q, error: E}, n) gives the object
\* _QueryError(Q, E, n) gives: query Q, message E, max_retries n (0 when left
\* out), and so the same retriable and retry_seconds.
C7_FactoryEqualsConstructor ==
    (result.op = "from_query_result" /\ result.raised = None) =>
        /\ err.query = result.entry.query
        /\ err.message = result.entry.error
        /\ err.max_retries = IF "max_retries" \in DOMAIN result.kw
                                 THEN result.kw.max_retries ELSE 0
        /\ err = QueryErrorInit(result.entry.query, result.entry.error, result.kw)

C7_Witness ==
    /\ result.op = "from_query_result"
    /\ result.raised = None
    /\ "max_retries" \in DOMAIN result.kw
    /\ result.kw.max_retries > 0
    /\ err.query = "query-2"
    /\ err.max_retries = result.kw.max_retries

\* C8: from_query_result raises a lookup error and returns no object when the
\* entry lacks the query key or the error key.
C8_MissingKeyRaises ==
    (/\ result.op = "from_query_result"
     /\ ~({"query", "error"} \subseteq DOMAIN result.entry)) =>
        /\ result.raised # None
        /\ result.raised.k = "KeyError"
        /\ result.raised.key \notin DOMAIN result.entry
        /\ err = NoObject

C8_Witness ==
    /\ result.op = "from_query_result"
    /\ DOMAIN result.entry = {"query"}
    /\ result.raised = KeyError("error")
    /\ err = NoObject

\* C10: at every read, retriable is a function of the object's current
\* message alone: it is what any object constructed from that message returns,
\* whatever its query and max_retries and whatever its message was before.
C10_RetriableOfCurrentMessage ==
    result.op = "retriable" =>
        \A q \in Queries, kw \in RetryKwargs :
            result.value = retriable(QueryErrorInit(q, err.message, kw))

-----------------------------------------------------------------------------
(* class RequestError *)

TypeError == [k |-> "TypeError"]

\* kwargs.pop("response_content", None) in place of the pop without default
RequestErrorInit_OptionalBody(args, kwargs, accepts) ==
    LET rest == [key \in DOMAIN kwargs \ {"response_content"} |-> kwargs[key]]
    IN  IF ~accepts THEN TypeError
        ELSE [k |-> "RequestError", args |-> args, kwargs |-> rest,
              response_content |-> IF "response_content" \in DOMAIN kwargs
                                       THEN kwargs.response_content ELSE "None"]

\* RequestError.__init__(*args, **kwargs): the new object or the exception.
\* ClientResponseError.__init__ belongs to aiohttp: accepts says whether it
\* takes the arguments handed on to it or raises.
RequestErrorInit(args, kwargs, accepts) ==
    IF "response_content" \notin DOMAIN kwargs THEN KeyError("response_content")
    ELSE LET rest == [key \in DOMAIN kwargs \ {"response_content"} |-> kwargs[key]]
         IN  IF ~accepts THEN TypeError
             ELSE [k |-> "RequestError", args |-> args, kwargs |-> rest,
                   response_content |-> kwargs.response_content]

Bodies == {"", "{\"title\": \"Bad Request\"}", "<html>"}

AllRequestKwargs ==
    [response_content : Bodies, status : {400, 503}, message : {"Bad Request"}]

\* keyword arguments of the call: any of the three may be left out
RequestKwargs ==
    {[key \in keys |-> full[key]] :
        full \in AllRequestKwargs,
        keys \in SUBSET {"response_content", "status", "message"}}

\* positional arguments of the call
RequestArgs == {<<>>, <<"request_info">>, <<"request_info", "history">>}

InitRequest ==
    /\ message = <<>>
    /\ Idle

\* RequestError(*args, **kwargs): req is the object the call returns, and
\* NoObject when it raises
ConstructRequest ==
    \E args \in RequestArgs, kwargs \in RequestKwargs, accepts \in BOOLEAN :
        LET out == RequestErrorInit(args, kwargs, accepts)
        IN  /\ req = NoObject
            /\ reqResult = NoResult
            /\ req' = IF out.k = "RequestError" THEN out ELSE NoObject
            /\ reqCall' = [op |-> "__init__", args |-> args, kwargs |-> kwargs,
                           accepts |-> accepts]
            /\ reqResult' = [op |-> "__init__",
                             raised |-> IF out.k = "RequestError" THEN None ELSE out]
            /\ UNCHANGED <<message, directive, err, result>>

\* a read of the attribute response_content
ReadResponseContent ==
    /\ req # NoObject
    /\ reqResult' = [op |-> "response_content", value |-> req.response_content]
    /\ UNCHANGED <<message, directive, err, result, req, reqCall>>

NextRequest ==
    \/ ConstructRequest
    \/ ReadResponseContent

SpecRequest == InitRequest /\ [][NextRequest]_vars

\* C9: RequestError built without response_content fails and gives no object;
\* built with response_content = B (and arguments the base class takes) it
\* exists, and every read of response_content gives B.
C9_ResponseContentRequired ==
    /\ (reqResult.op = "__init__" /\ "response_content" \notin DOMAIN reqCall.kwargs) =>
           (reqResult.raised = KeyError("response_content") /\ req = NoObject)
    /\ (/\ reqResult.op = "__init__"
        /\ "response_content" \in DOMAIN reqCall.kwargs
        /\ reqCall.accepts) =>
           (reqResult.raised = None /\ req # NoObject)
    /\ req # NoObject =>
           /\ "response_content" \in DOMAIN reqCall.kwargs
           /\ req.response_content = reqCall.kwargs.response_content
    /\ reqResult.op = "response_content" =>
           /\ "response_content" \in DOMAIN reqCall.kwargs
           /\ reqResult.value = reqCall.kwargs.response_content

C9_Witness ==
    /\ reqResult.op = "response_content"
    /\ reqCall.kwargs.response_content = "<html>"
    /\ reqResult.value = "<html>"
    /\ req # NoObject

=============================================================================
